---- MODULE Spec2Model ----
(***************************************************************************)
(* A model of tree_db: the B+Tree index of bplustree.py (the same class is *)
(* repeated in tree_db.py) and the two DatabaseManager classes, the one of *)
(* tree_db.py over the real B+Tree and the one of database_manager.py over *)
(* its mapping-backed stand-in, with their JSON persistence.               *)
(*                                                                         *)
(* Python lists are sequences; a Python index i is position i + 1 here.    *)
(* Object references (nodes) are indices into the arena tree.nodes, with 0 *)
(* for None.  A Python value is a record [tag, v]: its runtime type and an *)
(* integer payload.                                                        *)
(***************************************************************************)
EXTENDS Integers, Sequences, FiniteSets, TLC

\* ------------------------------------------------------------------ bounds

\* Keys offered to the stand-alone tree are 1..MaxKey.
MaxKey == 6
\* Primary-key integers offered to the managers are 1..MaxPk.
MaxPk == 2
\* The stand-alone tree is built with an order in 3..MaxOrder.
MaxOrder == 4

\* ------------------------------------------------------------------ values

IntV(n) == [tag |-> "int", v |-> n]
StrV(n) == [tag |-> "str", v |-> n]
FloatV(n) == [tag |-> "float", v |-> n]
\* True is BoolV(1), False is BoolV(0).
BoolV(n) == [tag |-> "bool", v |-> n]
\* Python's None, also what dict.get returns for a missing key.
None == [tag |-> "none", v |-> 0]

\* bool and float compare and hash with int in Python: True == 1, 1.0 == 1.
IsNumber(x) == x.tag \in {"int", "float", "bool"}
\* x == y in Python.
PyEq(x, y) ==
    \/ IsNumber(x) /\ IsNumber(y) /\ x.v = y.v
    \/ x.tag = y.tag /\ x.v = y.v
\* x < y is defined (no TypeError) between two numbers or two strings.
Comparable(x, y) ==
    \/ IsNumber(x) /\ IsNumber(y)
    \/ x.tag = "str" /\ y.tag = "str"
PyLess(x, y) == x.v < y.v

\* ------------------------------------------------------------------ lists

\* list.insert(idx, x)
ListInsert(s, idx, x) == SubSeq(s, 1, idx) \o <<x>> \o SubSeq(s, idx + 1, Len(s))
\* list.pop(idx)
ListPop(s, idx) == SubSeq(s, 1, idx) \o SubSeq(s, idx + 2, Len(s))
\* s[idx:] and s[:idx]
SliceFrom(s, idx) == SubSeq(s, idx + 1, Len(s))
SliceTo(s, idx) == SubSeq(s, 1, idx)
\* list.index(x): the first index holding a value equal to x, -1 for ValueError.
ListIndex(s, x) ==
    IF \E i \in 1..Len(s) : PyEq(s[i], x)
    THEN (CHOOSE i \in 1..Len(s) :
              PyEq(s[i], x) /\ \A j \in 1..(i - 1) : ~PyEq(s[j], x)) - 1
    ELSE -1

RECURSIVE BisectRightLoop(_, _, _, _)
BisectRightLoop(a, x, lo, hi) ==
    IF lo < hi
    THEN LET mid == (lo + hi) \div 2 IN
         IF PyLess(x, a[mid + 1])
         THEN BisectRightLoop(a, x, lo, mid)
         ELSE BisectRightLoop(a, x, mid + 1, hi)
    ELSE lo
\* bisect.bisect_right(a, x)
bisect_right(a, x) == BisectRightLoop(a, x, 0, Len(a))

RECURSIVE BisectLeftLoop(_, _, _, _)
BisectLeftLoop(a, x, lo, hi) ==
    IF lo < hi
    THEN LET mid == (lo + hi) \div 2 IN
         IF PyLess(a[mid + 1], x)
         THEN BisectLeftLoop(a, x, mid + 1, hi)
         ELSE BisectLeftLoop(a, x, lo, mid)
    ELSE lo
\* bisect.bisect_left(a, x)
bisect_left(a, x) == BisectLeftLoop(a, x, 0, Len(a))

\* ------------------------------------------------------------------ B+Tree

\* BPlusTreeNode.__init__
BPlusTreeNode(isLeaf) ==
    [is_leaf |-> isLeaf, keys |-> <<>>, children_or_values |-> <<>>, next_leaf |-> 0]

\* BPlusTreeNode.is_full
is_full(node, order) == Len(node.keys) = order

\* BPlusTree.__init__: the root is an empty leaf.
BPlusTree(order) ==
    [order |-> order, root |-> 1, nodes |-> <<BPlusTreeNode(TRUE)>>, _data |-> <<>>]

\* _find_leaf descending by bisect_left: a key equal to a separator goes left.
RECURSIVE FindLeafFromLeft(_, _, _)
FindLeafFromLeft(t, n, key) ==
    IF t.nodes[n].is_leaf
    THEN n
    ELSE FindLeafFromLeft(t, t.nodes[n].children_or_values[bisect_left(t.nodes[n].keys, key) + 1], key)
_find_leaf_bisect_left(t, key) == FindLeafFromLeft(t, t.root, key)

RECURSIVE FindLeafFrom(_, _, _)
FindLeafFrom(t, n, key) ==
    IF t.nodes[n].is_leaf
    THEN n
    ELSE FindLeafFrom(t, t.nodes[n].children_or_values[bisect_right(t.nodes[n].keys, key) + 1], key)
\* BPlusTree._find_leaf
_find_leaf(t, key) == FindLeafFrom(t, t.root, key)

\* The bisect_right of a descent raises TypeError: some internal node on the
\* way holds a key that cannot be ordered against the key looked for.
RECURSIVE FindLeafRaisesFrom(_, _, _)
FindLeafRaisesFrom(t, n, key) ==
    IF t.nodes[n].is_leaf
    THEN FALSE
    ELSE \/ \E i \in 1..Len(t.nodes[n].keys) : ~Comparable(t.nodes[n].keys[i], key)
         \/ FindLeafRaisesFrom(t, t.nodes[n].children_or_values[bisect_right(t.nodes[n].keys, key) + 1], key)
find_leaf_raises(t, key) == FindLeafRaisesFrom(t, t.root, key)

\* The parent tracked by insert's descent: the last internal node met, 0 for None.
RECURSIVE ParentFrom(_, _, _, _)
ParentFrom(t, parent, n, key) ==
    IF t.nodes[n].is_leaf
    THEN parent
    ELSE ParentFrom(t, n, t.nodes[n].children_or_values[bisect_right(t.nodes[n].keys, key) + 1], key)

\* _insert_in_parent that appends: the key and the right child go to the end
\* of the parent's lists, whichever leaf was split.
_insert_in_parent_append(t, parent, key, left_child, right_child) ==
    IF parent = 0
    THEN LET new_root == [is_leaf |-> FALSE,
                          keys |-> <<key>>,
                          children_or_values |-> <<left_child, right_child>>,
                          next_leaf |-> 0]
         IN [t EXCEPT !.nodes = Append(t.nodes, new_root),
                      !.root = Len(t.nodes) + 1]
    ELSE [t EXCEPT !.nodes[parent].keys = Append(@, key),
                   !.nodes[parent].children_or_values = Append(@, right_child)]

\* _insert_in_parent with the right child inserted at idx instead of idx + 1:
\* the new leaf lands before the leaf it was split from.
_insert_in_parent_child_before(t, parent, key, left_child, right_child) ==
    IF parent = 0
    THEN LET new_root == [is_leaf |-> FALSE,
                          keys |-> <<key>>,
                          children_or_values |-> <<left_child, right_child>>,
                          next_leaf |-> 0]
         IN [t EXCEPT !.nodes = Append(t.nodes, new_root),
                      !.root = Len(t.nodes) + 1]
    ELSE LET idx == bisect_right(t.nodes[parent].keys, key) IN
         [t EXCEPT !.nodes[parent].keys = ListInsert(@, idx, key),
                   !.nodes[parent].children_or_values = ListInsert(@, idx, right_child)]

\* BPlusTree._insert_in_parent.  left_child and right_child are node indices.
\* A parent that is full after the insertion is left as it is (the body of
\* the if is pass).
_insert_in_parent(t, parent, key, left_child, right_child) ==
    IF parent = 0
    THEN LET new_root == [is_leaf |-> FALSE,
                          keys |-> <<key>>,
                          children_or_values |-> <<left_child, right_child>>,
                          next_leaf |-> 0]
         IN [t EXCEPT !.nodes = Append(t.nodes, new_root),
                      !.root = Len(t.nodes) + 1]
    ELSE LET idx == bisect_right(t.nodes[parent].keys, key) IN
         [t EXCEPT !.nodes[parent].keys = ListInsert(@, idx, key),
                   !.nodes[parent].children_or_values = ListInsert(@, idx + 1, right_child)]

\* _split_leaf without `new_leaf.next_leaf = leaf.next_leaf`: the new leaf ends
\* the chain.
_split_leaf_no_relink(t, leaf, parent) ==
    LET mid_index == t.order \div 2
        old == t.nodes[leaf]
        new_leaf == [is_leaf |-> TRUE,
                     keys |-> SliceFrom(old.keys, mid_index),
                     children_or_values |-> SliceFrom(old.children_or_values, mid_index),
                     next_leaf |-> 0]
        new_id == Len(t.nodes) + 1
        t1 == [t EXCEPT !.nodes = Append(
                   [@ EXCEPT ![leaf].keys = SliceTo(old.keys, mid_index),
                             ![leaf].children_or_values = SliceTo(old.children_or_values, mid_index),
                             ![leaf].next_leaf = new_id],
                   new_leaf)]
    IN _insert_in_parent(t1, parent, new_leaf.keys[1], leaf, new_id)

\* _split_leaf that moves the middle key up instead of copying it: the new
\* leaf starts after the key that goes to the parent.
_split_leaf_move_up(t, leaf, parent) ==
    LET mid_index == t.order \div 2
        old == t.nodes[leaf]
        new_leaf == [is_leaf |-> TRUE,
                     keys |-> SliceFrom(old.keys, mid_index + 1),
                     children_or_values |-> SliceFrom(old.children_or_values, mid_index + 1),
                     next_leaf |-> old.next_leaf]
        new_id == Len(t.nodes) + 1
        t1 == [t EXCEPT !.nodes = Append(
                   [@ EXCEPT ![leaf].keys = SliceTo(old.keys, mid_index),
                             ![leaf].children_or_values = SliceTo(old.children_or_values, mid_index),
                             ![leaf].next_leaf = new_id],
                   new_leaf)]
    IN _insert_in_parent(t1, parent, old.keys[mid_index + 1], leaf, new_id)

\* _split_leaf without `leaf.next_leaf = new_leaf`: the new leaf is in the
\* parent and not in the chain.
_split_leaf_unlinked(t, leaf, parent) ==
    LET mid_index == t.order \div 2
        old == t.nodes[leaf]
        new_leaf == [is_leaf |-> TRUE,
                     keys |-> SliceFrom(old.keys, mid_index),
                     children_or_values |-> SliceFrom(old.children_or_values, mid_index),
                     next_leaf |-> old.next_leaf]
        new_id == Len(t.nodes) + 1
        t1 == [t EXCEPT !.nodes = Append(
                   [@ EXCEPT ![leaf].keys = SliceTo(old.keys, mid_index),
                             ![leaf].children_or_values = SliceTo(old.children_or_values, mid_index)],
                   new_leaf)]
    IN _insert_in_parent(t1, parent, new_leaf.keys[1], leaf, new_id)

\* BPlusTree._split_leaf
_split_leaf(t, leaf, parent) ==
    LET mid_index == t.order \div 2
        old == t.nodes[leaf]
        new_leaf == [is_leaf |-> TRUE,
                     keys |-> SliceFrom(old.keys, mid_index),
                     children_or_values |-> SliceFrom(old.children_or_values, mid_index),
                     next_leaf |-> old.next_leaf]
        new_id == Len(t.nodes) + 1
        t1 == [t EXCEPT !.nodes = Append(
                   [@ EXCEPT ![leaf].keys = SliceTo(old.keys, mid_index),
                             ![leaf].children_or_values = SliceTo(old.children_or_values, mid_index),
                             ![leaf].next_leaf = new_id],
                   new_leaf)]
    IN _insert_in_parent(t1, parent, new_leaf.keys[1], leaf, new_id)

\* The comparisons of insert's bisect calls raise TypeError when the key is not
\* comparable with the keys it is bisected against.
insert_raises(t, key) ==
    \/ find_leaf_raises(t, key)
    \/ LET leaf == t.nodes[_find_leaf(t, key)] IN
       /\ ListIndex(leaf.keys, key) = -1
       /\ \E i \in 1..Len(leaf.keys) : ~Comparable(leaf.keys[i], key)

\* insert without the test `if key in node.keys`: a key the leaf already holds
\* is inserted beside itself.
insert_no_upsert(t, key, value) ==
    LET parent == ParentFrom(t, 0, t.root, key)
        node == _find_leaf(t, key)
        idx == bisect_left(t.nodes[node].keys, key)
        t1 == [t EXCEPT !.nodes[node].keys = ListInsert(@, idx, key),
                        !.nodes[node].children_or_values = ListInsert(@, idx, value)]
    IN IF is_full(t1.nodes[node], t.order)
       THEN _split_leaf(t1, node, parent)
       ELSE t1

\* BPlusTree.insert (when it does not raise)
insert(t, key, value) ==
    LET parent == ParentFrom(t, 0, t.root, key)
        node == _find_leaf(t, key)
        found == ListIndex(t.nodes[node].keys, key)
    IN IF found >= 0
       THEN [t EXCEPT !.nodes[node].children_or_values[found + 1] = value]
       ELSE LET idx == bisect_left(t.nodes[node].keys, key)
                t1 == [t EXCEPT !.nodes[node].keys = ListInsert(@, idx, key),
                                !.nodes[node].children_or_values = ListInsert(@, idx, value)]
            IN IF is_full(t1.nodes[node], t.order)
               THEN _split_leaf(t1, node, parent)
               ELSE t1

\* BPlusTree.search: the value, or None
search(t, key) ==
    LET leaf == t.nodes[_find_leaf(t, key)]
        idx == ListIndex(leaf.keys, key)
    IN IF idx >= 0 THEN leaf.children_or_values[idx + 1] ELSE None

RECURSIVE LeftmostFrom(_, _)
LeftmostFrom(t, n) ==
    IF t.nodes[n].is_leaf THEN n ELSE LeftmostFrom(t, t.nodes[n].children_or_values[1])

\* The nodes get_all's second loop visits, in order.  The walk is cut after
\* `fuel` nodes, so that a cyclic chain gives a finite list with a repeat.
RECURSIVE ChainFrom(_, _, _)
ChainFrom(t, n, fuel) ==
    IF n = 0 \/ fuel = 0 THEN <<>> ELSE <<n>> \o ChainFrom(t, t.nodes[n].next_leaf, fuel - 1)
LeafChain(t) == ChainFrom(t, LeftmostFrom(t, t.root), Len(t.nodes) + 1)

RECURSIVE ConcatValues(_, _, _)
ConcatValues(t, chain, i) ==
    IF i > Len(chain) THEN <<>>
    ELSE t.nodes[chain[i]].children_or_values \o ConcatValues(t, chain, i + 1)
RECURSIVE ConcatKeys(_, _, _)
ConcatKeys(t, chain, i) ==
    IF i > Len(chain) THEN <<>>
    ELSE t.nodes[chain[i]].keys \o ConcatKeys(t, chain, i + 1)

\* BPlusTree.get_all
get_all(t) ==
    IF Len(t.nodes[t.root].keys) = 0 /\ ~t.nodes[t.root].is_leaf
    THEN <<>>
    ELSE ConcatValues(t, LeafChain(t), 1)

\* The removal with `leaf.children_or_values.pop(idx)` forgotten.
leaf_delete_keys_only(t, pk_value) ==
    LET leaf == _find_leaf(t, pk_value)
        idx == ListIndex(t.nodes[leaf].keys, pk_value)
    IN IF idx >= 0
       THEN [t EXCEPT !.nodes[leaf].keys = ListPop(@, idx)]
       ELSE t

\* The leaf-level removal that also clears the leaf's next_leaf link.
leaf_delete_cuts_chain(t, pk_value) ==
    LET leaf == _find_leaf(t, pk_value)
        idx == ListIndex(t.nodes[leaf].keys, pk_value)
    IN IF idx >= 0
       THEN [t EXCEPT !.nodes[leaf].keys = ListPop(@, idx),
                      !.nodes[leaf].children_or_values = ListPop(@, idx),
                      !.nodes[leaf].next_leaf = 0]
       ELSE t

\* The leaf-level removal of tree_db.py's DatabaseManager.delete: the tree
\* after the two pops, or the tree unchanged when the key is not in the leaf.
leaf_delete(t, pk_value) ==
    LET leaf == _find_leaf(t, pk_value)
        idx == ListIndex(t.nodes[leaf].keys, pk_value)
    IN IF idx >= 0
       THEN [t EXCEPT !.nodes[leaf].keys = ListPop(@, idx),
                      !.nodes[leaf].children_or_values = ListPop(@, idx)]
       ELSE t

\* ------------------------------------------------------------------ mock tree

\* database_manager.py's BPlusTree: a dict, kept here as the list of its
\* entries in insertion order.
MockBPlusTree(order) ==
    [order |-> order, root |-> 0, nodes |-> <<>>, _data |-> <<>>]

\* The index of key in the dict's entries, -1 when it is not a key.
MockIndex(t, key) ==
    IF \E i \in 1..Len(t._data) : PyEq(t._data[i].key, key)
    THEN (CHOOSE i \in 1..Len(t._data) : PyEq(t._data[i].key, key)) - 1
    ELSE -1

\* self._data[key] = value: an existing key keeps its place in the dict.
mock_insert(t, key, value) ==
    LET idx == MockIndex(t, key) IN
    IF idx >= 0
    THEN [t EXCEPT !._data[idx + 1].value = value]
    ELSE [t EXCEPT !._data = Append(@, [key |-> key, value |-> value])]

\* self._data.get(key)
mock_search(t, key) ==
    LET idx == MockIndex(t, key) IN
    IF idx >= 0 THEN t._data[idx + 1].value ELSE None

\* list(self._data.values())
mock_get_all(t) == [i \in 1..Len(t._data) |-> t._data[i].value]

\* del self._data[pk_value]
mock_delete(t, pk_value) == [t EXCEPT !._data = ListPop(@, MockIndex(t, pk_value))]

\* ------------------------------------------------------------------ schemas

\* What dict.get gives for a column the record does not carry is None; a
\* record is a function on Cols whose missing columns hold Absent.
Absent == [tag |-> "absent", v |-> 0]
Cols == {"id", "ref", "x"}
RecordKeys(record) == {c \in Cols : record[c] # Absent}
\* record.get(col)
Get(record, col) == IF record[col] = Absent THEN None ELSE record[col]

Column(name, data_type, nullable) ==
    [name |-> name, data_type |-> data_type, nullable |-> nullable]

\* TableSchema.__init__.  columns is the dict name -> Column, kept as the list
\* of its Column entries in insertion order; columns_as_list says that the
\* attribute has been overwritten by a list of plain dicts (tree_db.py's
\* save_to_disk does that).
TableSchema(name, columns, pk_name, foreign_keys) ==
    [name |-> name, columns |-> columns, pk_name |-> pk_name,
     foreign_keys |-> foreign_keys, columns_as_list |-> FALSE]

ColumnNames(schema) == {schema.columns[i].name : i \in 1..Len(schema.columns)}

\* The order every table's tree is built with.
TableOrder == 50

\* ------------------------------------------------------------------ state

VARIABLES
    tree,     \* a stand-alone BPlusTree of bplustree.py
    kv,       \* the plain key-to-value map the same calls build: kv[k] is the
              \* value last inserted for k and not deleted since, or None
    impl,     \* which DatabaseManager runs: "database_manager" or "tree_db"
    up,       \* a DatabaseManager object exists (its constructor returned)
    tables,   \* DatabaseManager.tables: table name -> TableSchema
    data,     \* DatabaseManager.data: table name -> tree
    disk,     \* the files of db_path: file name (without ".json") -> content
    res       \* the last call and how it ended: [op, err]

vars == <<tree, kv, impl, up, tables, data, disk, res>>
treeVars == <<tree, kv>>
dbVars == <<impl, up, tables, data, disk, res>>

\* ------------------------------------------------------------------ manager

Impls == {"database_manager", "tree_db"}

\* The tree class each manager module binds to the name BPlusTree.
NewTree == IF impl = "tree_db" THEN BPlusTree(TableOrder) ELSE MockBPlusTree(TableOrder)
tree_search(t, key) == IF impl = "tree_db" THEN search(t, key) ELSE mock_search(t, key)
tree_get_all(t) == IF impl = "tree_db" THEN get_all(t) ELSE mock_get_all(t)
tree_insert(t, key, value) ==
    IF impl = "tree_db" THEN insert(t, key, value) ELSE mock_insert(t, key, value)
tree_insert_raises(t, key) == impl = "tree_db" /\ insert_raises(t, key)
\* search raises TypeError in the real tree's descent; dict.get never does.
tree_search_raises(t, key) == impl = "tree_db" /\ find_leaf_raises(t, key)

\* A dict with one more entry.
DictSet(d, k, x) == [n \in DOMAIN d \cup {k} |-> IF n = k THEN x ELSE d[n]]
EmptyDict == [n \in {} |-> 0]

\* Text n > 0 stands for a text that strptime(value, '%Y-%m-%d') parses, text 0
\* for any other text.
DateParses(value) == value.v > 0

\* database_manager.py's check B of one non-null value against its column.
TypeCheck(col_schema, value) ==
    LET expected_type == col_schema.data_type IN
    IF expected_type = "int" /\ value.tag \notin {"int", "bool"} THEN "TypeMismatch"
    ELSE IF expected_type = "float" /\ value.tag \notin {"int", "float", "bool"} THEN "TypeMismatch"
    ELSE IF expected_type = "string" /\ value.tag # "str" THEN "TypeMismatch"
    ELSE IF expected_type = "boolean" /\ value.tag # "bool" THEN "TypeMismatch"
    ELSE IF expected_type = "date" /\ value.tag # "str" THEN "TypeMismatch"
    ELSE IF expected_type = "date" /\ ~DateParses(value) THEN "DateFormat"
    ELSE "ok"

\* database_manager.py's loop 2 over schema.columns, from the i-th column on:
\* the first failure it raises, or "ok".
RECURSIVE ValidateColumns(_, _, _)
ValidateColumns(schema, record, i) ==
    IF i > Len(schema.columns) THEN "ok"
    ELSE LET col_schema == schema.columns[i]
             value == Get(record, col_schema.name)
             typed == TypeCheck(col_schema, value)
         IN IF value = None
            THEN IF ~col_schema.nullable THEN "NotNull"
                 ELSE ValidateColumns(schema, record, i + 1)
            ELSE IF typed # "ok" THEN typed
                 ELSE ValidateColumns(schema, record, i + 1)

\* Steps 1 and 2 of database_manager.py's insert; tree_db.py's insert has none.
SchemaChecks(schema, record) ==
    IF impl = "tree_db" THEN "ok"
    ELSE IF \E col_name \in RecordKeys(record) : col_name \notin ColumnNames(schema)
    THEN "UnknownColumn"
    ELSE ValidateColumns(schema, record, 1)

\* The foreign-key loop checking only that the referenced table exists.
ForeignKeyDangles_table_only(schema, record) ==
    \E i \in 1..Len(schema.foreign_keys) :
        LET fk == schema.foreign_keys[i]
            fk_value == Get(record, fk.fk_col)
        IN /\ fk_value # None
           /\ fk.ref_table \notin DOMAIN data

\* The foreign-key loop without `if fk_value is not None`: a null reference is
\* looked up like any other value.
ForeignKeyDangles_checks_null(schema, record) ==
    \E i \in 1..Len(schema.foreign_keys) :
        LET fk == schema.foreign_keys[i]
            fk_value == Get(record, fk.fk_col)
        IN \/ fk.ref_table \notin DOMAIN data
           \/ tree_search(data[fk.ref_table], fk_value) = None

\* The foreign-key loop of insert: some foreign key of the record dangles.
ForeignKeyDangles(schema, record) ==
    \E i \in 1..Len(schema.foreign_keys) :
        LET fk == schema.foreign_keys[i]
            fk_value == Get(record, fk.fk_col)
        IN /\ fk_value # None
           /\ \/ fk.ref_table \notin DOMAIN data
              \/ tree_search(data[fk.ref_table], fk_value) = None

\* The foreign-key loop of insert ends with the TypeError of a search: the
\* first foreign key that does not pass is one whose search raises.
ForeignKeyRaises(schema, record) ==
    \E i \in 1..Len(schema.foreign_keys) :
        LET raises(fk) == /\ Get(record, fk.fk_col) # None
                          /\ fk.ref_table \in DOMAIN data
                          /\ tree_search_raises(data[fk.ref_table], Get(record, fk.fk_col))
            dangles(fk) == /\ Get(record, fk.fk_col) # None
                           /\ \/ fk.ref_table \notin DOMAIN data
                              \/ tree_search(data[fk.ref_table], Get(record, fk.fk_col)) = None
        IN /\ raises(schema.foreign_keys[i])
           /\ \A j \in 1..(i - 1) :
                  ~raises(schema.foreign_keys[j]) /\ ~dangles(schema.foreign_keys[j])

\* insert without the duplicate-key check: the tree's own upsert is reached.
InsertOutcome_no_duplicate_check(table_name, record) ==
    IF table_name \notin DOMAIN tables THEN "TableNotFound"
    ELSE LET schema == tables[table_name]
             pk_value == Get(record, schema.pk_name)
             checked == SchemaChecks(schema, record)
         IN IF checked # "ok" THEN checked
            ELSE IF pk_value = None THEN "NullPK"
            ELSE IF ForeignKeyRaises(schema, record) THEN "TypeError"
            ELSE IF ForeignKeyDangles(schema, record) THEN "DanglingFK"
            ELSE IF tree_insert_raises(data[table_name], pk_value) THEN "TypeError"
            ELSE "ok"

\* How DatabaseManager.insert(table_name, record) ends: "ok", or the error
\* it raises.
InsertOutcome(table_name, record) ==
    IF table_name \notin DOMAIN tables THEN "TableNotFound"
    ELSE LET schema == tables[table_name]
             pk_value == Get(record, schema.pk_name)
             checked == SchemaChecks(schema, record)
         IN IF checked # "ok" THEN checked
            ELSE IF pk_value = None THEN "NullPK"
            ELSE IF tree_search_raises(data[table_name], pk_value) THEN "TypeError"
            ELSE IF tree_search(data[table_name], pk_value) # None THEN "DuplicatePK"
            ELSE IF ForeignKeyRaises(schema, record) THEN "TypeError"
            ELSE IF ForeignKeyDangles(schema, record) THEN "DanglingFK"
            ELSE IF tree_insert_raises(data[table_name], pk_value) THEN "TypeError"
            ELSE "ok"

\* select with `len(where_clause) == 1 and` forgotten: every filter that names
\* the primary key is answered by the search alone.
select_pk_shortcut(table_name, where_clause) ==
    LET t == data[table_name]
        pk_name == tables[table_name].pk_name
        all_records == tree_get_all(t)
        matches(r) == \A k \in RecordKeys(where_clause) : PyEq(Get(r, k), where_clause[k])
    IN IF RecordKeys(where_clause) = {} THEN all_records
       ELSE IF pk_name \in RecordKeys(where_clause)
       THEN LET result == tree_search(t, where_clause[pk_name]) IN
            IF result # None THEN <<result>> ELSE <<>>
       ELSE SelectSeq(all_records, matches)

\* DatabaseManager.select(table_name, where_clause) on an existing table.  The
\* filter is a record like a row: the columns it does not name hold Absent.
select(table_name, where_clause) ==
    LET t == data[table_name]
        pk_name == tables[table_name].pk_name
        all_records == tree_get_all(t)
        matches(r) == \A k \in RecordKeys(where_clause) : PyEq(Get(r, k), where_clause[k])
    IN IF RecordKeys(where_clause) = {} THEN all_records
       ELSE IF RecordKeys(where_clause) = {pk_name}
       THEN LET result == tree_search(t, where_clause[pk_name]) IN
            IF result # None THEN <<result>> ELSE <<>>
       ELSE SelectSeq(all_records, matches)

\* select raises the TypeError of tree.search: only the primary-key path
\* searches the tree.
select_raises(table_name, where_clause) ==
    /\ RecordKeys(where_clause) = {tables[table_name].pk_name}
    /\ tree_search_raises(data[table_name], where_clause[tables[table_name].pk_name])

NoFilter == [c \in Cols |-> Absent]
Filter(col, value) == [c \in Cols |-> IF c = col THEN value ELSE Absent]

\* The loop of delete over the other tables: a row of another table
\* references pk_value.
IsReferenced(table_name, pk_value) ==
    \E other_table \in DOMAIN tables :
        /\ other_table # table_name
        /\ \E i \in 1..Len(tables[other_table].foreign_keys) :
               LET fk == tables[other_table].foreign_keys[i] IN
               /\ fk.ref_table = table_name
               /\ select(other_table, Filter(fk.fk_col, pk_value)) # <<>>

\* A select of that loop raises TypeError.  (When one table's select raises
\* and another table holds a match, which of the two ends the loop depends on
\* the order of self.tables; a match is given precedence here.)
ReferenceCheckRaises(table_name, pk_value) ==
    \E other_table \in DOMAIN tables :
        /\ other_table # table_name
        /\ \E i \in 1..Len(tables[other_table].foreign_keys) :
               LET fk == tables[other_table].foreign_keys[i] IN
               /\ fk.ref_table = table_name
               /\ select_raises(other_table, Filter(fk.fk_col, pk_value))

\* tree_db.py's delete raises the TypeError of _find_leaf.
DeleteRaises(table_name, pk_value) ==
    impl = "tree_db" /\ find_leaf_raises(data[table_name], pk_value)

\* The record is in the table's tree where delete looks for it.
DeleteFinds(table_name, pk_value) ==
    IF impl = "tree_db"
    THEN LET t == data[table_name] IN
         ListIndex(t.nodes[_find_leaf(t, pk_value)].keys, pk_value) >= 0
    ELSE MockIndex(data[table_name], pk_value) >= 0

\* delete without the loop over the referencing tables.
DeleteOutcome_no_reference_check(table_name, pk_value) ==
    IF table_name \notin DOMAIN tables THEN "TableNotFound"
    ELSE IF DeleteRaises(table_name, pk_value) THEN "TypeError"
    ELSE IF ~DeleteFinds(table_name, pk_value) THEN "NotFound"
    ELSE "ok"

\* How DatabaseManager.delete(table_name, pk_value) ends.
DeleteOutcome(table_name, pk_value) ==
    IF table_name \notin DOMAIN tables THEN "TableNotFound"
    ELSE IF IsReferenced(table_name, pk_value) THEN "Referenced"
    ELSE IF ReferenceCheckRaises(table_name, pk_value) THEN "TypeError"
    ELSE IF DeleteRaises(table_name, pk_value) THEN "TypeError"
    ELSE IF ~DeleteFinds(table_name, pk_value) THEN "NotFound"
    ELSE "ok"

\* ------------------------------------------------------------------ persistence

\* File names, without their ".json": metadata.json, and f"{table_name}.json".
MetadataFile == "metadata"
DataFile(table_name) == table_name

\* What json.load gives for a file: a dict (the descriptor) or a list (the rows).
JsonObject(object) == [kind |-> "object", object |-> object, array |-> <<>>]
JsonArray(array) == [kind |-> "array", object |-> EmptyDict, array |-> array]

\* The dict save_to_disk dumps for one schema: its attributes, with columns a
\* list of the columns' own dicts.
SchemaDict(schema) ==
    [name |-> schema.name, columns |-> schema.columns, pk_name |-> schema.pk_name,
     foreign_keys |-> schema.foreign_keys]

\* tree_db.py's save_to_disk reads schema.columns.values(): AttributeError once
\* columns is a list.  (The tables whose columns are a list were all created
\* before those whose columns are a dict, so the loop fails at its first table.)
SaveRaises == impl = "tree_db" /\ \E name \in DOMAIN tables : tables[name].columns_as_list

\* The files after save_to_disk: metadata.json first, then one file per table
\* in self.data, each a whole-file overwrite.
SavedDisk ==
    LET metadata == [name \in DOMAIN tables |-> SchemaDict(tables[name])]
        names == {DataFile(table_name) : table_name \in DOMAIN data}
    IN [f \in DOMAIN disk \cup {MetadataFile} \cup names |->
           IF f \in names
           THEN JsonArray(tree_get_all(data[CHOOSE table_name \in DOMAIN data : DataFile(table_name) = f]))
           ELSE IF f = MetadataFile THEN JsonObject(metadata)
           ELSE disk[f]]

\* tree_db.py builds the metadata from schema.__dict__ itself and assigns the
\* list to its 'columns' entry, which is the schema's own attribute.
SavedTables ==
    IF impl = "tree_db"
    THEN [name \in DOMAIN tables |-> [tables[name] EXCEPT !.columns_as_list = TRUE]]
    ELSE tables

\* load_from_disk without the test `os.path.exists(metadata_path)`: opening a
\* descriptor that is not there raises.
LoadRaises_without_descriptor ==
    \/ MetadataFile \notin DOMAIN disk
    \/ disk[MetadataFile].kind # "object"
    \/ \E name \in DOMAIN disk[MetadataFile].object :
           LET schema_data == disk[MetadataFile].object[name]
               f == DataFile(name)
           IN /\ f \in DOMAIN disk
              /\ \/ disk[f].kind = "object" /\ DOMAIN disk[f].object # {}
                 \/ \E i \in 1..Len(disk[f].array) :
                        disk[f].array[i][schema_data.pk_name] = Absent

\* load_from_disk raises: metadata.json holds a list (no .items()), or a
\* table's file holds a non-empty dict (its keys are strings, which cannot be
\* indexed by the primary-key name), or a row without the primary-key column.
LoadRaises ==
    /\ MetadataFile \in DOMAIN disk
    /\ \/ disk[MetadataFile].kind # "object"
       \/ \E name \in DOMAIN disk[MetadataFile].object :
              LET schema_data == disk[MetadataFile].object[name]
                  f == DataFile(name)
              IN /\ f \in DOMAIN disk
                 /\ \/ disk[f].kind = "object" /\ DOMAIN disk[f].object # {}
                    \/ \E i \in 1..Len(disk[f].array) :
                           disk[f].array[i][schema_data.pk_name] = Absent

\* The loop over a file's records: each is inserted under its primary key.
\* The tree after one insertion is bound as a value before the loop goes on,
\* so that a long file is replayed in a number of steps linear in its length.
RECURSIVE Replay(_, _, _, _)
Replay(t, records, pk_name, i) ==
    IF i > Len(records) THEN t
    ELSE CHOOSE loaded \in { Replay(inserted, records, pk_name, i + 1) :
                                 inserted \in {tree_insert(t, records[i][pk_name], records[i])} } : TRUE

LoadedTables ==
    IF MetadataFile \notin DOMAIN disk THEN EmptyDict
    ELSE LET metadata == disk[MetadataFile].object IN
         [name \in DOMAIN metadata |->
              TableSchema(name, metadata[name].columns, metadata[name].pk_name,
                          metadata[name].foreign_keys)]

LoadedData ==
    IF MetadataFile \notin DOMAIN disk THEN EmptyDict
    ELSE LET metadata == disk[MetadataFile].object IN
         [name \in DOMAIN metadata |->
              IF DataFile(name) \in DOMAIN disk
              THEN Replay(NewTree, disk[DataFile(name)].array, metadata[name].pk_name, 1)
              ELSE NewTree]

\* ------------------------------------------------------------------ actions

\* create_table without the test `schema.name in self.tables`.
CreateTable_replaces_existing(schema) ==
    /\ up
    /\ res' = [op |-> "create_table", err |-> "ok"]
    /\ tables' = DictSet(tables, schema.name, schema)
    /\ data' = DictSet(data, schema.name, NewTree)
    /\ UNCHANGED <<tree, kv, impl, up, disk>>

\* DatabaseManager.create_table(schema)
CreateTable(schema) ==
    /\ up
    /\ IF schema.name \in DOMAIN tables
       THEN /\ res' = [op |-> "create_table", err |-> "TableExists"]
            /\ UNCHANGED <<tables, data>>
       ELSE /\ res' = [op |-> "create_table", err |-> "ok"]
            /\ tables' = DictSet(tables, schema.name, schema)
            /\ data' = DictSet(data, schema.name, NewTree)
    /\ UNCHANGED <<tree, kv, impl, up, disk>>

\* insert writing the row before the foreign-key check: a dangling reference
\* is reported with the row already in the tree.
Insert_write_before_fk_check(table_name, record) ==
    /\ up
    /\ LET outcome == InsertOutcome(table_name, record) IN
       /\ res' = [op |-> "insert", err |-> outcome]
       /\ IF outcome \in {"ok", "DanglingFK"}
          THEN data' = [data EXCEPT ![table_name] =
                           tree_insert(@, Get(record, tables[table_name].pk_name), record)]
          ELSE UNCHANGED data
    /\ UNCHANGED <<tree, kv, impl, up, tables, disk>>

\* insert that stores the record in the tree of the table its first foreign
\* key references, when that key has a value, instead of the table's own.
Insert_into_ref_table(table_name, record) ==
    /\ up
    /\ LET outcome == InsertOutcome(table_name, record)
           schema == tables[table_name]
           target == IF /\ schema.foreign_keys # <<>>
                        /\ Get(record, schema.foreign_keys[1].fk_col) # None
                     THEN schema.foreign_keys[1].ref_table
                     ELSE table_name
       IN /\ res' = [op |-> "insert", err |-> outcome]
          /\ IF outcome = "ok"
             THEN data' = [data EXCEPT ![target] =
                              tree_insert(@, Get(record, schema.pk_name), record)]
             ELSE UNCHANGED data
    /\ UNCHANGED <<tree, kv, impl, up, tables, disk>>

\* DatabaseManager.insert(table_name, record)
Insert(table_name, record) ==
    /\ up
    /\ LET outcome == InsertOutcome(table_name, record) IN
       /\ res' = [op |-> "insert", err |-> outcome]
       /\ IF outcome = "ok"
          THEN data' = [data EXCEPT ![table_name] =
                           tree_insert(@, Get(record, tables[table_name].pk_name), record)]
          ELSE UNCHANGED data
    /\ UNCHANGED <<tree, kv, impl, up, tables, disk>>

\* DatabaseManager.delete(table_name, pk_value)
Delete(table_name, pk_value) ==
    /\ up
    /\ LET outcome == DeleteOutcome(table_name, pk_value) IN
       /\ res' = [op |-> "delete", err |-> outcome]
       /\ IF outcome = "ok"
          THEN data' = [data EXCEPT ![table_name] =
                           IF impl = "tree_db" THEN leaf_delete(@, pk_value)
                           ELSE mock_delete(@, pk_value)]
          ELSE UNCHANGED data
    /\ UNCHANGED <<tree, kv, impl, up, tables, disk>>

\* DatabaseManager.select(table_name, where_clause): nothing is assigned; the
\* call returns select(table_name, where_clause) or raises.
Select(table_name, where_clause) ==
    /\ up
    /\ res' = [op |-> "select",
               err |-> IF table_name \notin DOMAIN data THEN "TableNotFound"
                       ELSE IF select_raises(table_name, where_clause) THEN "TypeError"
                       ELSE "ok"]
    /\ UNCHANGED <<tree, kv, impl, up, tables, data, disk>>

\* DatabaseManager.save_to_disk()
Save ==
    /\ up
    /\ IF SaveRaises
       THEN /\ res' = [op |-> "save", err |-> "AttributeError"]
            /\ UNCHANGED <<tables, disk>>
       ELSE /\ res' = [op |-> "save", err |-> "ok"]
            /\ disk' = SavedDisk
            /\ tables' = SavedTables
    /\ UNCHANGED <<tree, kv, impl, up, data>>

\* DatabaseManager(db_path) on the same directory: a new manager, filled by
\* load_from_disk.  When load_from_disk raises, so does the constructor, and
\* there is no manager.
Load ==
    /\ IF LoadRaises
       THEN /\ up' = FALSE
            /\ res' = [op |-> "load", err |-> "LoadFault"]
            /\ tables' = EmptyDict
            /\ data' = EmptyDict
       ELSE /\ up' = TRUE
            /\ res' = [op |-> "load", err |-> "ok"]
            /\ tables' = LoadedTables
            /\ data' = LoadedData
    /\ UNCHANGED <<tree, kv, impl, disk>>

\* The files when save_to_disk is interrupted after metadata.json and the
\* record files of the tables in `written` have been written, and before the
\* others.  The loop follows self.data's insertion order, which the model does
\* not keep: every proper subset of the tables is a prefix of it for some
\* order of the create_table calls that lead to the same store.
PartlySavedDisk_all_or_nothing(written) == disk

PartlySavedDisk(written) ==
    LET metadata == [name \in DOMAIN tables |-> SchemaDict(tables[name])]
        names == {DataFile(table_name) : table_name \in written}
    IN [f \in DOMAIN disk \cup {MetadataFile} \cup names |->
           IF f \in names
           THEN JsonArray(tree_get_all(data[CHOOSE table_name \in written : DataFile(table_name) = f]))
           ELSE IF f = MetadataFile THEN JsonObject(metadata)
           ELSE disk[f]]

\* A store as select shows it: per table, the schema's attributes and the rows.
StoreOf(schemas, trees) ==
    [name \in DOMAIN schemas |->
        [schema |-> SchemaDict(schemas[name]), rows |-> tree_get_all(trees[name])]]

\* save_to_disk interrupted after the descriptor and the files of `written`,
\* the process gone, and a new DatabaseManager built on the directory.  res
\* notes what the new manager holds: the store that was being saved, the store
\* the files held before the save began, or neither ("torn").
SaveInterrupted(written) ==
    /\ up
    /\ ~SaveRaises
    /\ written # DOMAIN data
    /\ UNCHANGED <<tree, kv, impl>>
    /\ disk' = PartlySavedDisk(written)
    /\ up' = ~LoadRaises'
    /\ tables' = IF LoadRaises' THEN EmptyDict ELSE LoadedTables'
    /\ data' = IF LoadRaises' THEN EmptyDict ELSE LoadedData'
    /\ res' = [op |-> "crash",
               err |-> IF LoadRaises' THEN "LoadFault"
                       ELSE IF StoreOf(LoadedTables', LoadedData') = StoreOf(tables, data)
                       THEN "as_saved"
                       ELSE IF StoreOf(LoadedTables', LoadedData') = StoreOf(LoadedTables, LoadedData)
                       THEN "as_before"
                       ELSE "torn"]

\* ------------------------------------------------------------------ tree spec

Orders == 3..MaxOrder
TreeKeys == {IntV(k) : k \in 1..MaxKey}
\* Two values, so that an overwrite can be told from the value it replaces.
TreeValues == {StrV(0), StrV(1)}

\* DatabaseManager.__init__ on a directory without metadata.json.
InitDb ==
    /\ up = TRUE
    /\ tables = EmptyDict
    /\ data = EmptyDict
    /\ disk = EmptyDict
    /\ res = [op |-> "init", err |-> "ok"]

InitTree ==
    /\ \E order \in Orders : tree = BPlusTree(order)
    /\ kv = [k \in 1..MaxKey |-> None]
    /\ impl = "tree_db"
    /\ InitDb

\* tree.insert(key, value)
TreeInsert(key, value) ==
    /\ tree' = insert(tree, key, value)
    /\ kv' = [kv EXCEPT ![key.v] = value]
    /\ UNCHANGED dbVars

\* The leaf-level delete of tree_db.py, on a key the tree holds.
TreeDelete(key) ==
    /\ kv[key.v] # None
    /\ tree' = leaf_delete(tree, key)
    /\ kv' = [kv EXCEPT ![key.v] = None]
    /\ UNCHANGED dbVars

NextTree ==
    \/ \E key \in TreeKeys, value \in TreeValues : TreeInsert(key, value)
    \/ \E key \in TreeKeys : TreeDelete(key)

SpecTree == InitTree /\ [][NextTree]_vars

\* tree.insert(key, value), with what it did noted in res: it replaced the
\* value of a key the tree held, or added the key without a split, or added it
\* and split the leaf (the split is the only place that creates nodes).
TreeUpsert(key, value) ==
    /\ tree' = insert(tree, key, value)
    /\ kv' = [kv EXCEPT ![key.v] = value]
    /\ res' = [op |-> "tree_insert",
               err |-> IF kv[key.v] # None THEN "overwrite"
                       ELSE IF Len(tree'.nodes) > Len(tree.nodes) THEN "split"
                       ELSE "new"]
    /\ UNCHANGED <<impl, up, tables, data, disk>>

\* Sequences of insert calls alone.
NextInserts == \E key \in TreeKeys, value \in TreeValues : TreeUpsert(key, value)

SpecInserts == InitTree /\ [][NextInserts]_vars

\* ------------------------------------------------------------------ store spec

Names == {"parent", "child"}
IdColumns == <<Column("id", "int", FALSE), Column("ref", "int", TRUE)>>
ForeignKey(fk_col, ref_table, ref_col) ==
    [fk_col |-> fk_col, ref_table |-> ref_table, ref_col |-> ref_col]
\* parent without foreign key, parent referencing itself, child referencing parent.
Schemas ==
    { TableSchema("parent", IdColumns, "id", <<>>),
      TableSchema("parent", IdColumns, "id", <<ForeignKey("ref", "parent", "id")>>),
      TableSchema("child", IdColumns, "id", <<ForeignKey("ref", "parent", "id")>>) }
PkValues == {IntV(n) : n \in 1..MaxPk}
\* The referencing column is offered the primary key 1 or nothing.
RefValues == {IntV(1)}
Record(id, ref, x) == [c \in Cols |-> IF c = "id" THEN id ELSE IF c = "ref" THEN ref ELSE x]
\* Every record over id and ref with integers or nothing, one with a text
\* primary key, one with a text reference, one with an undeclared column, one
\* with an explicit null reference.
Records ==
    { Record(id, ref, Absent) : id \in PkValues \cup {Absent}, ref \in RefValues \cup {Absent} }
    \cup { Record(StrV(0), Absent, Absent),
           Record(IntV(1), StrV(0), Absent),
           Record(IntV(1), Absent, IntV(1)),
           Record(IntV(1), None, Absent) }

Init ==
    /\ tree = BPlusTree(3)
    /\ kv = [k \in 1..MaxKey |-> None]
    /\ impl \in Impls
    /\ InitDb

Next ==
    \/ \E schema \in Schemas : CreateTable(schema)
    \/ \E table_name \in Names, record \in Records : Insert(table_name, record)
    \/ \E table_name \in Names, pk_value \in PkValues : Delete(table_name, pk_value)

Spec == Init /\ [][Next]_vars

\* ------------------------------------------------------------------ disk spec

\* The store with its persistence, on a table named parent and a table named
\* metadata that references it.
DiskNames == {"parent", "metadata"}
DiskSchemas ==
    { TableSchema("parent", IdColumns, "id", <<>>),
      TableSchema("metadata", IdColumns, "id", <<ForeignKey("ref", "parent", "id")>>) }
\* A row per primary key, and one row that references the row 1.
DiskRecords ==
    { Record(id, Absent, Absent) : id \in PkValues } \cup { Record(IntV(1), IntV(1), Absent) }

NextDisk ==
    \/ \E schema \in DiskSchemas : CreateTable(schema)
    \/ \E table_name \in DiskNames, record \in DiskRecords : Insert(table_name, record)
    \/ \E table_name \in DiskNames, pk_value \in PkValues : Delete(table_name, pk_value)
    \/ Save
    \/ Load

SpecDisk == Init /\ [][NextDisk]_vars

\* ------------------------------------------------------------------ typed spec

\* The store on one table, typed, with an int primary key id, nullable or not,
\* and one more column x of any data type, nullable or not.  The column ref is
\* not declared.
DataTypes == {"int", "float", "string", "boolean", "date"}
TypedSchemas ==
    { TableSchema("typed", <<Column("id", "int", pk_nullable), Column("x", data_type, nullable)>>,
                  "id", <<>>) :
          data_type \in DataTypes, pk_nullable \in BOOLEAN, nullable \in BOOLEAN }
\* A value of each kind (StrV(1) is a text that parses as a date, StrV(0) one
\* that does not), an explicit None and no value.
TypedValues == {IntV(1), FloatV(1), StrV(0), StrV(1), BoolV(1), None, Absent}
TypedRecords ==
    { Record(id, ref, x) : id \in {IntV(1), None, Absent}, ref \in {IntV(1), Absent},
                           x \in TypedValues }

NextTyped ==
    \/ \E schema \in TypedSchemas : CreateTable(schema)
    \/ \E record \in TypedRecords : Insert("typed", record)
    \/ Delete("typed", IntV(1))

SpecTyped == Init /\ [][NextTyped]_vars

\* ------------------------------------------------------------------ big spec

\* A manager built on a directory that holds one saved table, big, with as many
\* rows as the order of a table's tree: replaying them splits the real tree's
\* leaf, so that its root is an internal node.  Every second row has ref = 1.
BigSchema == TableSchema("big", IdColumns, "id", <<>>)
BigRows ==
    [i \in 1..TableOrder |-> Record(IntV(i), IF i % 2 = 0 THEN IntV(1) ELSE Absent, Absent)]
BigDisk ==
    [f \in {MetadataFile, DataFile("big")} |->
        IF f = MetadataFile
        THEN JsonObject([name \in {"big"} |-> SchemaDict(BigSchema)])
        ELSE JsonArray(BigRows)]

\* DatabaseManager.__init__ on that directory.
InitBig ==
    /\ tree = BPlusTree(3)
    /\ kv = [k \in 1..MaxKey |-> None]
    /\ impl \in Impls
    /\ up = TRUE
    /\ disk = BigDisk
    /\ tables = LoadedTables
    /\ data = LoadedData
    /\ res = [op |-> "load", err |-> "ok"]

\* The first two keys, the first key of the second leaf (the root's key), the
\* last key, one more than the last, and a text.
BigPks ==
    {IntV(1), IntV(2), IntV(TableOrder \div 2 + 1), IntV(TableOrder), IntV(TableOrder + 1), StrV(0)}
BigRecords == { Record(id, Absent, Absent) : id \in BigPks }
\* No filter; the primary key alone, with each key and None; ref alone; both.
BigFilters ==
    {NoFilter}
    \cup { Filter("id", value) : value \in BigPks \cup {None} }
    \cup { Filter("ref", value) : value \in {IntV(1), None} }
    \cup { Record(id, IntV(1), Absent) : id \in {IntV(1), IntV(TableOrder)} }

NextBig ==
    \/ \E record \in BigRecords : Insert("big", record)
    \/ \E pk_value \in BigPks : Delete("big", pk_value)
    \/ \E where_clause \in BigFilters : Select("big", where_clause)

SpecBig == InitBig /\ [][NextBig]_vars

\* ------------------------------------------------------------------ stray spec

\* Directories that hold a record file and no descriptor: the file parent.json
\* with one row, or with a row that has no primary key.
StrayDisks ==
    { [f \in {DataFile("parent")} |-> JsonArray(<<record>>)] :
          record \in {Record(IntV(1), Absent, Absent), Record(Absent, IntV(1), Absent)} }

\* DatabaseManager.__init__ on such a directory: load_from_disk runs once.
InitStray ==
    /\ tree = BPlusTree(3)
    /\ kv = [k \in 1..MaxKey |-> None]
    /\ impl \in Impls
    /\ disk \in StrayDisks
    /\ up = ~LoadRaises
    /\ tables = IF LoadRaises THEN EmptyDict ELSE LoadedTables
    /\ data = IF LoadRaises THEN EmptyDict ELSE LoadedData
    /\ res = [op |-> "load", err |-> IF LoadRaises THEN "LoadFault" ELSE "ok"]

SpecStray == InitStray /\ [][NextDisk]_vars

\* ------------------------------------------------------------------ walk spec

\* A tree is built by inserts that store each key as its own value; then one
\* get_all runs statement by statement while one insert of a new key may run,
\* as a whole, between two of its statements.  res is the position of get_all:
\* its node, the statement it is at, its results, and what get_all returned
\* when it began (before) and returns when it ends (after).

\* An insert before the walk begins.
WalkFill(key) ==
    /\ res.op = "init"
    /\ TreeInsert(key, key)

\* get_all up to its second loop: the empty-root test and the descent along
\* the first children.
WalkBegin ==
    /\ res.op = "init"
    /\ res' = IF Len(tree.nodes[tree.root].keys) = 0 /\ ~tree.nodes[tree.root].is_leaf
              THEN [op |-> "get_all", err |-> "ok", pc |-> "return", node |-> 0,
                    results |-> <<>>, before |-> get_all(tree), after |-> get_all(tree)]
              ELSE [op |-> "get_all", err |-> "walking", pc |-> "extend",
                    node |-> LeftmostFrom(tree, tree.root),
                    results |-> <<>>, before |-> get_all(tree), after |-> <<>>]
    /\ UNCHANGED <<tree, kv, impl, up, tables, data, disk>>

\* results.extend(node.children_or_values)
WalkExtend ==
    /\ res.op = "get_all" /\ res.err = "walking" /\ res.pc = "extend"
    /\ res' = [res EXCEPT !.results = @ \o tree.nodes[res.node].children_or_values,
                          !.pc = "next"]
    /\ UNCHANGED <<tree, kv, impl, up, tables, data, disk>>

\* node = node.next_leaf, and the loop test: the walk goes on, or get_all
\* returns results.
WalkNext ==
    /\ res.op = "get_all" /\ res.err = "walking" /\ res.pc = "next"
    /\ res' = IF tree.nodes[res.node].next_leaf = 0
              THEN [res EXCEPT !.err = "ok", !.pc = "return", !.node = 0,
                               !.after = get_all(tree)]
              ELSE [res EXCEPT !.node = tree.nodes[res.node].next_leaf, !.pc = "extend"]
    /\ UNCHANGED <<tree, kv, impl, up, tables, data, disk>>

\* The one insert that runs during the walk: a key the tree does not hold.
WalkInsert(key) ==
    /\ res.op = "get_all" /\ res.err = "walking"
    /\ kv[key.v] = None
    /\ Cardinality({k \in 1..MaxKey : kv[k] # None}) = Len(res.before)
    /\ TreeInsert(key, key)

NextWalk ==
    \/ \E key \in TreeKeys : WalkFill(key)
    \/ WalkBegin
    \/ WalkExtend
    \/ WalkNext
    \/ \E key \in TreeKeys : WalkInsert(key)

SpecWalk == InitTree /\ [][NextWalk]_vars

\* ------------------------------------------------------------------ crash spec

\* Two tables whose files do not collide with the descriptor.
CrashSchemas ==
    { TableSchema("parent", IdColumns, "id", <<>>),
      TableSchema("child", IdColumns, "id", <<ForeignKey("ref", "parent", "id")>>) }

\* Complete saves and loads, then at most one interrupted save: nothing
\* follows it, so that the files it found are those of completed saves.
NextCrash ==
    \/ \E schema \in CrashSchemas : res.op # "crash" /\ CreateTable(schema)
    \/ \E table_name \in Names, record \in DiskRecords :
           res.op # "crash" /\ Insert(table_name, record)
    \/ res.op # "crash" /\ Save
    \/ res.op # "crash" /\ Load
    \/ \E written \in SUBSET DOMAIN data : res.op # "crash" /\ SaveInterrupted(written)

SpecCrash == Init /\ [][NextCrash]_vars

\* ------------------------------------------------------------------ claims: tree

\* The nodes under n, n included.
RECURSIVE Subtree(_, _)
Subtree(t, n) ==
    IF t.nodes[n].is_leaf THEN {n}
    ELSE {n} \cup UNION { Subtree(t, t.nodes[n].children_or_values[i]) :
                              i \in 1..Len(t.nodes[n].children_or_values) }
Leaves(t) == {n \in Subtree(t, t.root) : t.nodes[n].is_leaf}
LiveKeys == {k \in 1..MaxKey : kv[k] # None}

\* C1: the next_leaf chain from the leftmost leaf visits every leaf of the tree
\* exactly once and ends, the keys met are strictly ascending across the whole
\* chain, and get_all returns exactly one value per key held, in ascending key
\* order: the value last inserted for it.
LeafChainSound ==
    LET chain == LeafChain(tree)
        keys == ConcatKeys(tree, chain, 1)
        values == get_all(tree)
    IN /\ Len(chain) <= Len(tree.nodes)
       /\ \A i, j \in 1..Len(chain) : i # j => chain[i] # chain[j]
       /\ tree.nodes[chain[Len(chain)]].next_leaf = 0
       /\ {chain[i] : i \in 1..Len(chain)} = Leaves(tree)
       /\ \A i \in 1..(Len(keys) - 1) : keys[i].v < keys[i + 1].v
       /\ {keys[i].v : i \in 1..Len(keys)} = LiveKeys
       /\ Len(values) = Cardinality(LiveKeys)
       /\ Len(values) = Len(keys)
       /\ \A i \in 1..Len(values) : values[i] = kv[keys[i].v]

\* C1's case: every key is in the tree and at least two leaf splits happened.
LeafChainWitness ==
    /\ Len(LeafChain(tree)) >= 3
    /\ LiveKeys = 1..MaxKey

\* C2: after every insert no node is full: every leaf and every internal node
\* holds strictly fewer than `order` keys.
NoNodeFull ==
    \A n \in Subtree(tree, tree.root) : Len(tree.nodes[n].keys) < tree.order

\* C10: search agrees with the plain map: the value last inserted for a key
\* that was inserted and not deleted since, None for every other key (also for
\* keys below and above every key ever inserted).
SearchAgreesWithMap ==
    \A k \in 0..(MaxKey + 1) :
        search(tree, IntV(k)) = (IF k \in 1..MaxKey THEN kv[k] ELSE None)

\* C10's case: the root is an internal node, a leaf was emptied by deletes and
\* some key holds the second value.
SearchWitness ==
    /\ ~tree.nodes[tree.root].is_leaf
    /\ \E n \in Leaves(tree) : tree.nodes[n].keys = <<>>
    /\ \E k \in 1..MaxKey : kv[k] = StrV(1)

\* ------------------------------------------------------------------ claims: store

\* The rows select returns for a table without a filter.
Rows(table_name) == select(table_name, NoFilter)
PkOf(table_name, record) == Get(record, tables[table_name].pk_name)
\* The table holds a row whose primary key equals pk_value (by a scan, not by
\* the tree's search).
HoldsPk(table_name, pk_value) ==
    LET rows == Rows(table_name) IN
    \E i \in 1..Len(rows) : PyEq(PkOf(table_name, rows[i]), pk_value)
SeqSet(q) == {q[i] : i \in 1..Len(q)}
AllRecords == Records \cup DiskRecords
AllNames == Names \cup DiskNames

\* The (key, value) entries a table's tree holds, in the tree's own order.
RECURSIVE LeafEntries(_, _, _)
LeafEntries(t, chain, i) ==
    IF i > Len(chain) THEN <<>>
    ELSE LET node == t.nodes[chain[i]] IN
         [j \in 1..Len(node.keys) |->
              [key |-> node.keys[j],
               value |-> IF j <= Len(node.children_or_values)
                         THEN node.children_or_values[j] ELSE None]]
         \o LeafEntries(t, chain, i + 1)
Entries(table_name) ==
    IF impl = "tree_db"
    THEN LeafEntries(data[table_name], LeafChain(data[table_name]), 1)
    ELSE data[table_name]._data

\* C3: each record held for a table is stored under a key equal to its
\* primary-key value, every stored value is returned by select, and no two
\* records of a table have the same primary-key value.
KeysArePrimaryKeys ==
    \A table_name \in DOMAIN tables :
        LET entries == Entries(table_name)
            rows == Rows(table_name)
        IN /\ \A i \in 1..Len(entries) :
                  /\ entries[i].value # None
                  /\ entries[i].key = entries[i].value[tables[table_name].pk_name]
           /\ Len(rows) = Len(entries)
           /\ \A i, j \in 1..Len(rows) :
                  i # j => ~PyEq(PkOf(table_name, rows[i]), PkOf(table_name, rows[j]))

\* C3's case: a store rebuilt by load that holds a table with two rows.
KeysWitness ==
    /\ res = [op |-> "load", err |-> "ok"]
    /\ \E table_name \in DOMAIN tables : Len(Rows(table_name)) = 2

\* C4: an insert whose primary-key value is already in the table is rejected
\* and changes nothing, so the record returned for that key afterwards is the
\* one stored before; the error is the duplicate-key error whenever the record
\* passes the column checks that run before the key checks.
DuplicateRejected ==
    [][res'.op = "insert" => \A table_name \in DOMAIN tables, record \in AllRecords :
          ( /\ PkOf(table_name, record) # None
            /\ HoldsPk(table_name, PkOf(table_name, record))
            /\ Insert(table_name, record) )
          => /\ res'.err # "ok"
             /\ SchemaChecks(tables[table_name], record) = "ok" => res'.err = "DuplicatePK"
             /\ data' = data
             /\ select(table_name, Filter(tables[table_name].pk_name, PkOf(table_name, record)))'
                  = select(table_name, Filter(tables[table_name].pk_name, PkOf(table_name, record)))
      ]_vars

\* C4's case: an insert has just been refused as a duplicate.
DuplicateWitness ==
    /\ res = [op |-> "insert", err |-> "DuplicatePK"]
    /\ \E table_name \in DOMAIN tables : Len(Rows(table_name)) > 0

\* C5: an insert that fails leaves the whole store unchanged: the catalog is
\* the same and every table's unfiltered select returns the same sequence.
FailedInsertChangesNothing ==
    [][(res'.op = "insert" /\ res'.err # "ok")
          => /\ tables' = tables
             /\ DOMAIN data' = DOMAIN data
             /\ \A table_name \in DOMAIN tables : Rows(table_name)' = Rows(table_name)
      ]_vars

\* C5's case: an insert failed on a dangling foreign key while the table it
\* was for exists.
FailedInsertWitness ==
    /\ res = [op |-> "insert", err |-> "DanglingFK"]
    /\ "child" \in DOMAIN tables

\* Some foreign key of the record has a non-null value.
HasForeignKeyValue(table_name, record) ==
    \E i \in 1..Len(tables[table_name].foreign_keys) :
        Get(record, tables[table_name].foreign_keys[i].fk_col) # None
\* Some non-null foreign key of the record names a table that does not exist
\* or that holds no row with that primary key (by a scan).
Dangles(table_name, record) ==
    \E i \in 1..Len(tables[table_name].foreign_keys) :
        LET fk == tables[table_name].foreign_keys[i] IN
        /\ Get(record, fk.fk_col) # None
        /\ \/ fk.ref_table \notin DOMAIN tables
           \/ ~HoldsPk(fk.ref_table, Get(record, fk.fk_col))
\* The record passes every check of insert but the foreign-key one.
PassesOtherChecks(table_name, record) ==
    /\ SchemaChecks(tables[table_name], record) = "ok"
    /\ PkOf(table_name, record) # None
    /\ ~HoldsPk(table_name, PkOf(table_name, record))
    /\ ~tree_insert_raises(data[table_name], PkOf(table_name, record))

ReferencedElsewhere(table_name, pk_value) ==
    \E other_table \in DOMAIN tables \ {table_name} :
        \E i \in 1..Len(tables[other_table].foreign_keys) :
            LET fk == tables[other_table].foreign_keys[i] IN
            /\ fk.ref_table = table_name
            /\ LET rows == Rows(other_table) IN
               \E j \in 1..Len(rows) : PyEq(Get(rows[j], fk.fk_col), pk_value)

\* C8: delete(table, pk) is refused with the referenced-row error and removes
\* nothing whenever a row of another table references pk; when no row of
\* another table references it and the row exists, delete succeeds and removes
\* that row alone.
ReferencedRowProtected ==
    [][res'.op = "delete" => \A table_name \in DOMAIN tables, pk_value \in PkValues :
          Delete(table_name, pk_value)
          => IF ReferencedElsewhere(table_name, pk_value)
             THEN res'.err = "Referenced" /\ data' = data
             ELSE HoldsPk(table_name, pk_value)
                  => /\ res'.err = "ok"
                     /\ ~HoldsPk(table_name, pk_value)'
                     /\ Len(Rows(table_name)') = Len(Rows(table_name)) - 1
                     /\ SeqSet(Rows(table_name)') \subseteq SeqSet(Rows(table_name))
      ]_vars

\* C8's case: a delete has just been refused because a row references it.
ReferencedWitness ==
    /\ res = [op |-> "delete", err |-> "Referenced"]
    /\ "child" \in DOMAIN tables
    /\ Len(Rows("child")) > 0

\* C9: for every table and every foreign key declared on it, whichever table
\* it references, each stored record's non-null foreign-key value is the
\* primary key of a record present in the referenced table.
ReferentialIntegrity ==
    \A table_name \in DOMAIN tables :
        LET rows == Rows(table_name) IN
        \A i \in 1..Len(rows) : ~Dangles(table_name, rows[i])

\* C6: save_to_disk followed by a new DatabaseManager on the same directory
\* gives a store with the same table names in which every table's unfiltered
\* select returns the same set of records as before saving.
SaveLoadRoundTrip ==
    [][(res = [op |-> "save", err |-> "ok"] /\ res'.op = "load")
          => /\ res'.err = "ok"
             /\ DOMAIN tables' = DOMAIN tables
             /\ \A table_name \in DOMAIN tables :
                    SeqSet(Rows(table_name)') = SeqSet(Rows(table_name))
      ]_vars

\* ------------------------------------------------------------------ claims: select, validation, lifecycle

\* C11: with database_manager.py's manager, select without a filter returns
\* a table's records in ascending primary-key order, whatever the order they
\* were inserted in.
SelectAscending ==
    impl = "database_manager" =>
        \A table_name \in DOMAIN tables :
            LET rows == Rows(table_name) IN
            \A i \in 1..(Len(rows) - 1) :
                PkOf(table_name, rows[i]).v < PkOf(table_name, rows[i + 1]).v

\* The kinds of value the declared data type stands for.
KindMatches(data_type, value) ==
    CASE data_type = "int" -> value.tag = "int"
      [] data_type = "float" -> value.tag \in {"int", "float"}
      [] data_type = "string" -> value.tag = "str"
      [] data_type = "boolean" -> value.tag = "bool"
      [] data_type = "date" -> value.tag = "str"

\* C12: with database_manager.py's manager, which checks types, every non-null
\* value stored for a declared column is of the kind its data_type stands for:
\* an insert with any other pairing of kind and type (a boolean in an int or
\* float column, for one) was rejected.
StoredKindsMatch ==
    impl = "database_manager" =>
        \A table_name \in DOMAIN tables :
            LET rows == Rows(table_name)
                columns == tables[table_name].columns
            IN \A i \in 1..Len(rows), j \in 1..Len(columns) :
                   Get(rows[i], columns[j].name) # None
                   => KindMatches(columns[j].data_type, Get(rows[i], columns[j].name))

\* C13: an insert of a record in which a non-nullable column or the
\* primary-key column is absent or null is rejected and stores nothing.
NullsRejected ==
    [][res'.op = "insert" => \A table_name \in DOMAIN tables, record \in TypedRecords :
          ( /\ \/ Get(record, tables[table_name].pk_name) = None
               \/ \E j \in 1..Len(tables[table_name].columns) :
                      /\ ~tables[table_name].columns[j].nullable
                      /\ Get(record, tables[table_name].columns[j].name) = None
            /\ Insert(table_name, record) )
          => res'.err # "ok" /\ data' = data
      ]_vars

\* C14: each stored record's column names are a subset of its table's
\* declared columns: an insert with any other column name was rejected.
StoredColumnsDeclared ==
    \A table_name \in DOMAIN tables :
        LET rows == Rows(table_name) IN
        \A i \in 1..Len(rows) : RecordKeys(rows[i]) \subseteq ColumnNames(tables[table_name])

\* C15: no insert, select, delete or save_to_disk changes a table's schema:
\* its column mapping, its primary-key name and its foreign-key list are after
\* the call what they were before it.
SchemaImmutable ==
    [][res'.op \in {"insert", "select", "delete", "save"}
          => /\ DOMAIN tables' = DOMAIN tables
             /\ \A table_name \in DOMAIN tables : tables'[table_name] = tables[table_name]
      ]_vars

\* C16: delete(table, pk) on an existing table fails with the not-found error,
\* the store unchanged, when no row has that primary key; when the row exists
\* and nothing references it, it succeeds and the rows are the previous ones
\* without that row, in the same relative order.
DeleteRemovesOne ==
    [][res'.op = "delete" => \A table_name \in DOMAIN tables, pk_value \in BigPks :
          Delete(table_name, pk_value)
          => LET rows == Rows(table_name)
                 others(r) == ~PyEq(PkOf(table_name, r), pk_value)
             IN IF ~HoldsPk(table_name, pk_value)
                THEN res'.err = "NotFound" /\ data' = data /\ tables' = tables
                ELSE ~ReferencedElsewhere(table_name, pk_value)
                     => /\ res'.err = "ok"
                        /\ Rows(table_name)' = SelectSeq(rows, others)
      ]_vars

\* C17: select with a filter on the primary-key column alone returns the one
\* record with that key, or nothing when there is none: the same result as a
\* scan of all the rows with the equality test.
PkSelectIsScan ==
    [][res'.op = "select" => \A table_name \in DOMAIN tables, where_clause \in BigFilters :
          ( /\ RecordKeys(where_clause) = {tables[table_name].pk_name}
            /\ Select(table_name, where_clause) )
          => LET value == where_clause[tables[table_name].pk_name]
                 equal(r) == PyEq(PkOf(table_name, r), value)
                 scan == SelectSeq(Rows(table_name), equal)
             IN /\ res'.err = "ok"
                /\ Len(scan) <= 1
                /\ select(table_name, where_clause) = scan
      ]_vars

\* C18: select with any filter other than the primary-key column alone returns
\* exactly the rows in which every filter column equals the supplied value, in
\* the order of the unfiltered select, and leaves the store as it was.
FilterIsConjunction ==
    [][res'.op = "select" => \A table_name \in DOMAIN tables, where_clause \in BigFilters :
          ( /\ RecordKeys(where_clause) # {tables[table_name].pk_name}
            /\ Select(table_name, where_clause) )
          => LET every(r) == \A c \in Cols :
                                 where_clause[c] = Absent \/ PyEq(Get(r, c), where_clause[c])
             IN /\ res'.err = "ok"
                /\ select(table_name, where_clause) = SelectSeq(Rows(table_name), every)
                /\ tables' = tables /\ data' = data /\ disk' = disk
      ]_vars

\* C18's case: a select has returned, in a store where a filter on both columns
\* keeps some of the rows and drops others.
FilterWitness ==
    /\ res = [op |-> "select", err |-> "ok"]
    /\ "big" \in DOMAIN tables
    /\ \E where_clause \in BigFilters :
           /\ RecordKeys(where_clause) = {"id", "ref"}
           /\ Len(select("big", where_clause)) > 0
           /\ Len(select("big", where_clause)) < Len(Rows("big"))

\* C19: create_table with a name the store already holds fails with the
\* table-exists error and leaves that table's schema and rows as they were;
\* with a new name it adds the table with the given schema and no rows.
CreateTableOnce ==
    [][res'.op = "create_table" => \A schema \in Schemas :
          CreateTable(schema)
          => IF schema.name \in DOMAIN tables
             THEN /\ res'.err = "TableExists"
                  /\ tables'[schema.name] = tables[schema.name]
                  /\ Rows(schema.name)' = Rows(schema.name)
             ELSE /\ res'.err = "ok"
                  /\ DOMAIN tables' = DOMAIN tables \cup {schema.name}
                  /\ tables'[schema.name] = schema
                  /\ Rows(schema.name)' = <<>>
      ]_vars

\* C19's case: create_table has been refused for a table that holds a row.
CreateTableWitness ==
    /\ res = [op |-> "create_table", err |-> "TableExists"]
    /\ \E table_name \in DOMAIN tables : Len(Rows(table_name)) > 0

\* C20: a manager that has loaded a directory without the descriptor file has
\* no tables and no rows, whatever record files the directory holds.
NoDescriptorEmptyStore ==
    (res.op = "load" /\ MetadataFile \notin DOMAIN disk)
    => /\ res.err = "ok"
       /\ up
       /\ tables = EmptyDict
       /\ data = EmptyDict

\* C20's case: a load has ended on a directory that holds a record file and no
\* descriptor.
NoDescriptorWitness ==
    /\ res.op = "load"
    /\ MetadataFile \notin DOMAIN disk
    /\ DataFile("parent") \in DOMAIN disk

\* ------------------------------------------------------------------ claims: tree structure

\* C21: insert(key, value) with a key the tree already holds only replaces the
\* value paired with that key: the nodes, every node's keys, the children of
\* the internal nodes, the next_leaf links and the root are unchanged, no
\* node is created, and every other value stays where it was.
UpsertInPlace ==
    [][\A key \in TreeKeys, value \in TreeValues :
          (kv[key.v] # None /\ TreeUpsert(key, value))
          => /\ tree'.root = tree.root
             /\ tree'.order = tree.order
             /\ Len(tree'.nodes) = Len(tree.nodes)
             /\ \A n \in 1..Len(tree.nodes) :
                    /\ tree'.nodes[n].is_leaf = tree.nodes[n].is_leaf
                    /\ tree'.nodes[n].keys = tree.nodes[n].keys
                    /\ tree'.nodes[n].next_leaf = tree.nodes[n].next_leaf
                    /\ Len(tree'.nodes[n].children_or_values) = Len(tree.nodes[n].children_or_values)
                    /\ \A i \in 1..Len(tree.nodes[n].children_or_values) :
                           tree'.nodes[n].children_or_values[i] =
                               IF tree.nodes[n].is_leaf /\ tree.nodes[n].keys[i] = key
                               THEN value
                               ELSE tree.nodes[n].children_or_values[i]
      ]_vars

\* C21's case: the last insert replaced a value in a tree of three leaves or
\* more, and the key it was given now holds the second value.
UpsertWitness ==
    /\ res = [op |-> "tree_insert", err |-> "overwrite"]
    /\ Len(LeafChain(tree)) >= 3
    /\ \E k \in 1..MaxKey : kv[k] = StrV(1)

\* C22: when an insert of a new key brings its leaf to `order` keys, the leaf
\* keeps the first order \div 2 keys and values, a new leaf takes the rest in
\* order, the new leaf's next_leaf is the leaf's former next_leaf, the leaf's
\* next_leaf is the new leaf, and the key that separates the two in the parent
\* is the new leaf's first key, which the new leaf still holds.
SplitCopiesUp ==
    [][\A key \in TreeKeys, value \in TreeValues :
          LET leaf == _find_leaf(tree, key)
              old == tree.nodes[leaf]
              idx == bisect_left(old.keys, key)
              keys == ListInsert(old.keys, idx, key)
              values == ListInsert(old.children_or_values, idx, value)
              mid == tree.order \div 2
              new == Len(tree.nodes) + 1
          IN ( /\ kv[key.v] = None
               /\ Len(old.keys) = tree.order - 1
               /\ TreeUpsert(key, value) )
             => /\ Len(tree'.nodes) >= new
                /\ tree'.nodes[new].is_leaf
                /\ tree'.nodes[leaf].keys = SliceTo(keys, mid)
                /\ tree'.nodes[leaf].children_or_values = SliceTo(values, mid)
                /\ tree'.nodes[new].keys = SliceFrom(keys, mid)
                /\ tree'.nodes[new].children_or_values = SliceFrom(values, mid)
                /\ tree'.nodes[new].next_leaf = old.next_leaf
                /\ tree'.nodes[leaf].next_leaf = new
                /\ \E p \in 1..Len(tree'.nodes) :
                       /\ ~tree'.nodes[p].is_leaf
                       /\ \E j \in 1..Len(tree'.nodes[p].keys) :
                              /\ tree'.nodes[p].children_or_values[j] = leaf
                              /\ tree'.nodes[p].children_or_values[j + 1] = new
                              /\ tree'.nodes[p].keys[j] = tree'.nodes[new].keys[1]
      ]_vars

\* C22's case: the last insert split a leaf that had a leaf after it, so that
\* the new leaf was linked into the middle of the chain.
SplitWitness ==
    /\ res = [op |-> "tree_insert", err |-> "split"]
    /\ \E n \in 1..Len(tree.nodes) :
           /\ tree.nodes[n].is_leaf
           /\ tree.nodes[n].next_leaf = Len(tree.nodes)
           /\ tree.nodes[Len(tree.nodes)].is_leaf
           /\ tree.nodes[Len(tree.nodes)].next_leaf # 0

\* C23: after any sequence of inserts, in every node of the tree the keys are
\* strictly ascending, a leaf holds as many values as keys, and an internal
\* node holds one more child than keys.
NodeShape ==
    \A n \in Subtree(tree, tree.root) :
        LET node == tree.nodes[n] IN
        /\ \A i \in 1..(Len(node.keys) - 1) : node.keys[i].v < node.keys[i + 1].v
        /\ IF node.is_leaf
           THEN Len(node.children_or_values) = Len(node.keys)
           ELSE Len(node.children_or_values) = Len(node.keys) + 1

\* C23's case: the last insert split a leaf in the middle of the chain, under
\* a root that holds at least `order` keys.
NodeShapeWitness ==
    /\ res = [op |-> "tree_insert", err |-> "split"]
    /\ ~tree.nodes[tree.root].is_leaf
    /\ Len(tree.nodes[tree.root].keys) >= tree.order
    /\ tree.nodes[Len(tree.nodes)].next_leaf # 0

\* The keys held by the leaves under node n.
RECURSIVE KeysUnder(_, _)
KeysUnder(t, n) ==
    IF t.nodes[n].is_leaf THEN {t.nodes[n].keys[i].v : i \in 1..Len(t.nodes[n].keys)}
    ELSE UNION { KeysUnder(t, t.nodes[n].children_or_values[i]) :
                     i \in 1..Len(t.nodes[n].children_or_values) }

\* C24: after any sequence of inserts, under every internal node the keys
\* stored below the child at position i are at least the key before that
\* position and below the key at it, so that the descent by the number of keys
\* <= the search key ends in the one leaf whose range holds that key: every key
\* of the tree is in the leaf _find_leaf returns for it and in no other leaf.
RoutingSound ==
    /\ \A n \in Subtree(tree, tree.root) :
           LET node == tree.nodes[n] IN
           ~node.is_leaf =>
               \A i \in 1..Len(node.children_or_values) :
                   \A k \in KeysUnder(tree, node.children_or_values[i]) :
                       /\ i > 1 => k >= node.keys[i - 1].v
                       /\ i <= Len(node.keys) => k < node.keys[i].v
    /\ \A k \in LiveKeys :
           \A n \in Leaves(tree) :
               (\E i \in 1..Len(tree.nodes[n].keys) : tree.nodes[n].keys[i].v = k)
                   <=> n = _find_leaf(tree, IntV(k))

\* C24's case: the last insert split a leaf under a root with three keys or
\* more, and a key smaller than every separator and one equal to a separator
\* are both in the tree.
RoutingWitness ==
    /\ res = [op |-> "tree_insert", err |-> "split"]
    /\ ~tree.nodes[tree.root].is_leaf
    /\ Len(tree.nodes[tree.root].keys) >= 3
    /\ \E k \in LiveKeys : k < tree.nodes[tree.root].keys[1].v
    /\ \E k \in LiveKeys : k = tree.nodes[tree.root].keys[2].v

\* C25: for tree_db.py's manager, after any successful inserts and deletes on
\* a table the next_leaf chain of its tree visits every leaf once and ends,
\* the keys met are strictly ascending, each value met is the record stored
\* under the key met with it and search returns it; a successful insert adds
\* its record to what get_all returns, once, and a successful delete removes
\* the record with that key and no other.  A key deleted and inserted again is
\* among these inserts.
ChainSurvivesChurn ==
    /\ [](impl = "tree_db" =>
            \A table_name \in DOMAIN data :
                LET t == data[table_name]
                    chain == LeafChain(t)
                    keys == ConcatKeys(t, chain, 1)
                    values == get_all(t)
                IN /\ \A i, j \in 1..Len(chain) : i # j => chain[i] # chain[j]
                   /\ t.nodes[chain[Len(chain)]].next_leaf = 0
                   /\ {chain[i] : i \in 1..Len(chain)} = Leaves(t)
                   /\ \A i \in 1..(Len(keys) - 1) : keys[i].v < keys[i + 1].v
                   /\ Len(values) = Len(keys)
                   /\ \A i \in 1..Len(values) :
                          /\ PkOf(table_name, values[i]) = keys[i]
                          /\ search(t, keys[i]) = values[i])
    /\ [][(impl = "tree_db" /\ res'.err = "ok") =>
            /\ \A table_name \in DOMAIN data, record \in BigRecords :
                   (res'.op = "insert" /\ Insert(table_name, record))
                   => LET new == get_all(data'[table_name]) IN
                      /\ SeqSet(new) = SeqSet(get_all(data[table_name])) \cup {record}
                      /\ Len(new) = Len(get_all(data[table_name])) + 1
                      /\ search(data'[table_name], PkOf(table_name, record)) = record
            /\ \A table_name \in DOMAIN data, pk_value \in BigPks :
                   (res'.op = "delete" /\ Delete(table_name, pk_value))
                   => LET old == get_all(data[table_name])
                          others(r) == ~PyEq(PkOf(table_name, r), pk_value)
                      IN /\ get_all(data'[table_name]) = SelectSeq(old, others)
                         /\ Len(old) = Len(get_all(data'[table_name])) + 1
                         /\ search(data'[table_name], pk_value) = None
      ]_vars

\* C25's case: tree_db.py's manager has just inserted again the key the root
\* holds as its separator (the row no longer has the ref it was loaded with),
\* in a tree that has two leaves.
ChurnWitness ==
    /\ impl = "tree_db"
    /\ res = [op |-> "insert", err |-> "ok"]
    /\ "big" \in DOMAIN data
    /\ Len(LeafChain(data["big"])) >= 2
    /\ search(data["big"], IntV(TableOrder \div 2 + 1)) = Record(IntV(TableOrder \div 2 + 1), Absent, Absent)
    /\ search(data["big"], IntV(TableOrder + 1)) # None

\* ------------------------------------------------------------------ claims: persistence and frame

\* C26: save_to_disk writes the descriptor first and the record files one by
\* one after it.  A load that follows an interruption between these writes
\* gets the catalog that was being saved, and for each table the rows being
\* saved if its file had been written, else the rows of the file a completed
\* save left, else no rows; when the store it gets is neither the one being
\* saved nor the one last saved, a table of the new catalog has rows missing
\* or stale.
TornSaveShape ==
    [][res'.op = "crash" =>
          /\ res'.err # "LoadFault"
          /\ DOMAIN tables' = DOMAIN tables
          /\ \A table_name \in DOMAIN tables :
                 SchemaDict(tables'[table_name]) = SchemaDict(tables[table_name])
          /\ \E written \in SUBSET DOMAIN data :
                 /\ written # DOMAIN data
                 /\ \A table_name \in DOMAIN data :
                        SeqSet(Rows(table_name)') =
                            IF table_name \in written THEN SeqSet(Rows(table_name))
                            ELSE IF DataFile(table_name) \in DOMAIN disk
                            THEN SeqSet(disk[DataFile(table_name)].array)
                            ELSE {}
          /\ res'.err = "torn" =>
                 \E table_name \in DOMAIN tables :
                     SeqSet(Rows(table_name)') # SeqSet(Rows(table_name))
      ]_vars

\* C26's case: after an interrupted save the new manager holds neither the
\* store that was being saved nor the one last saved: it has both tables of
\* the new catalog, a row in parent, and no row in child although the files
\* hold a descriptor written after child was created.
TornSaveWitness ==
    /\ res = [op |-> "crash", err |-> "torn"]
    /\ DOMAIN tables = {"parent", "child"}
    /\ Len(Rows("parent")) > 0
    /\ Len(Rows("child")) = 0
    /\ DataFile("child") \notin DOMAIN disk

\* C27: a get_all whose walk is interleaved with one insert loses none of the
\* values the tree held when it began and returns none the tree does not hold
\* when it ends, and equals the content before when no insert ran; but when it
\* equals neither the content before the insert nor the content after it, it
\* returns some value twice.
WalkFrame ==
    (res.op = "get_all" /\ res.err = "ok")
    => /\ SeqSet(res.before) \subseteq SeqSet(res.results)
       /\ SeqSet(res.results) \subseteq SeqSet(res.after)
       /\ res.after = res.before => res.results = res.before
       /\ res.results \notin {res.before, res.after}
              => \E i, j \in 1..Len(res.results) : i # j /\ res.results[i] = res.results[j]

\* C27's case: get_all has returned after an insert split the leaf it stood
\* on, and its result is neither the content before the insert nor the content
\* after it: a value is in it twice.
WalkWitness ==
    /\ res.op = "get_all" /\ res.err = "ok"
    /\ Len(res.after) = Len(res.before) + 1
    /\ res.results # res.before
    /\ res.results # res.after
    /\ \E i, j \in 1..Len(res.results) : i # j /\ res.results[i] = res.results[j]

\* C28: a foreign key whose column is null or absent in the record is not
\* checked: an insert of a record in which every foreign-key column is null or
\* absent, and which passes the other checks, succeeds and stores the record,
\* also when the referenced table does not exist or is empty.
NullReferenceUnchecked ==
    [][res'.op = "insert" => \A table_name \in DOMAIN tables, record \in AllRecords :
          ( /\ tables[table_name].foreign_keys # <<>>
            /\ ~HasForeignKeyValue(table_name, record)
            /\ PassesOtherChecks(table_name, record)
            /\ Insert(table_name, record) )
          => /\ res'.err = "ok"
             /\ SeqSet(Rows(table_name)') = SeqSet(Rows(table_name)) \cup {record}
      ]_vars

\* C28's case: child holds a row with an explicit null reference and one with
\* no reference at all, the last of them just inserted, while the table its
\* foreign key names does not exist.
NullReferenceWitness ==
    /\ res = [op |-> "insert", err |-> "ok"]
    /\ "child" \in DOMAIN tables
    /\ "parent" \notin DOMAIN tables
    /\ \E i \in 1..Len(Rows("child")) : Rows("child")[i]["ref"] = None
    /\ \E i \in 1..Len(Rows("child")) : Rows("child")[i]["ref"] = Absent

\* C29: save_to_disk called again, with nothing done since a save that ended
\* well, ends well too, leaves every file as the first call wrote it, and the
\* rows select returns for each table are the same before and after it.
SaveRepeatable ==
    [][(res = [op |-> "save", err |-> "ok"] /\ res'.op = "save" /\ DOMAIN tables # {})
          => /\ res'.err = "ok"
             /\ disk' = disk
             /\ \A table_name \in DOMAIN tables : Rows(table_name)' = Rows(table_name)
      ]_vars

\* C30: a successful insert or delete on one table leaves the rows of every
\* other table and the whole catalog of schemas as they were.
OtherTablesUntouched ==
    [][(res'.op \in {"insert", "delete"} /\ res'.err = "ok") =>
          /\ tables' = tables
          /\ DOMAIN data' = DOMAIN data
          /\ \A table_name \in DOMAIN tables :
                 ( \/ \E record \in AllRecords : Insert(table_name, record)
                   \/ \E pk_value \in PkValues : Delete(table_name, pk_value) )
                 => \A other \in DOMAIN tables \ {table_name} : Rows(other)' = Rows(other)
      ]_vars

\* C30's case: a row has just been deleted from child (parent holds every key
\* it can, so the delete was not on parent), and child still holds a row that
\* references a row of parent.
OtherTablesWitness ==
    /\ res = [op |-> "delete", err |-> "ok"]
    /\ DOMAIN tables = {"parent", "child"}
    /\ Len(Rows("parent")) = MaxPk
    /\ \E i \in 1..Len(Rows("child")) : Rows("child")[i]["ref"] = IntV(1)

====
